---- MODULE Spec2Model ----
(***************************************************************************)
(* Customer side of the Wasallha dispatch marketplace                      *)
(* (src/CustomerDashboard.tsx): the orders and offers collections of the   *)
(* realtime store, the customer's sessions (each a mounted                 *)
(* CustomerDashboard with its React state and its snapshot of the active   *)
(* order), and the handlers that write to the store.                       *)
(*                                                                         *)
(* A store write (addDoc / updateDoc) is asynchronous: the handler issues  *)
(* it with the values its closure captured at the click, and the store     *)
(* applies it later.  updateDoc merges the given fields into the document  *)
(* whatever the document holds at that moment.                             *)
(*                                                                         *)
(* Units: distances are tenths of a kilometre, vehicle multipliers are     *)
(* tenths, prices are whole pounds.                                        *)
(***************************************************************************)
EXTENDS Integers, Sequences, FiniteSets, TLC

\* ------------------------------------------------------------------ bounds
MaxOrders == 1
MaxOffers == 2
MaxCalls == 2
MaxTime == 1
MaxDistanceCalls == 2
MaxDistance == 10
MaxQuantity == 3
MaxReorders == 2

\* ------------------------------------------------------------- value sets
Sessions == {1, 2}
OrderIds == 1..MaxOrders
Drivers == {"d1", "d2"}
Categories == {"TAXI", "FOOD", "PHARMACY"}
Vehicles == {"MOTORCYCLE", "TOKTOK", "CAR"}

NULL == "null"
NullObj == [null |-> TRUE]
None == 0 - 1

WAITING_FOR_OFFERS == "WAITING_FOR_OFFERS"
ACCEPTED == "ACCEPTED"
ACTIVE_DELIVERY == "ACTIVE_DELIVERY"
DELIVERED == "DELIVERED"
DELIVERED_RATED == "DELIVERED_RATED"
CANCELLED == "CANCELLED"

OrderStatus ==
    {WAITING_FOR_OFFERS, ACCEPTED, ACTIVE_DELIVERY, DELIVERED, DELIVERED_RATED, CANCELLED}

\* the user prop of the dashboard: every session is a session of this customer
userId == "customer"

\* what the customer enters in the rating view, as <<stars, feedback text>>:
\* the stars left as they are and no text, or one star and a complaint
RateInputs == {<<5, "">>, <<1, " ok ">>}
\* String.prototype.trim on the feedback texts of RateInputs
trim(str) == IF str = " ok " THEN "ok" ELSE str

\* the price each courier bids
OfferPrices(d) == IF d = "d1" THEN {30} ELSE {40}
\* courier profile photos: d1 has one, d2 has none
driverPhotoOf(d) == IF d = "d1" THEN "photo1" ELSE NULL

VARIABLES
    orders,            \* store: orders collection, OrderIds -> document or NullObj
    offers,            \* store: offers collection, the set of its documents
    notifications,     \* WhatsApp messages opened towards the operator
    now,               \* wall clock read by Date.now()
    calls,             \* store requests sent by the handlers and not yet answered
    activeOrder,       \* per session: useState activeOrder
    incomingOffers,    \* per session: useState incomingOffers
    isSubmitting,      \* per session
    rating,            \* per session
    feedback,          \* per session
    alert,             \* per session: the alert() box on screen, NULL if none
    selectedCategory,  \* per session, the creation form
    pickupVillage,
    dropoffVillage,
    selectedVehicle,
    actualRoadDist,
    isCalculatingDist,
    prescriptionImg,
    medsList,
    showCustomRestForm,
    customRestName,
    customRestOrder,
    customRestPickupVillage,
    viewingRestaurant, \* per session: the restaurant whose menu is open, or NULL
    currentVillage,    \* per session, RestaurantMenuView: delivery village
    roadDist,          \* per session, RestaurantMenuView
    isCalculating,     \* per session, RestaurantMenuView
    cart,              \* per session, RestaurantMenuView: sequence of cart items
    customItemNote,    \* per session, RestaurantMenuView
    distanceCalls      \* getRoadDistance requests not yet answered

storeVars == <<orders, offers, notifications>>
viewVars == <<activeOrder, incomingOffers>>
rateVars == <<rating, feedback>>
selectionVars ==
    <<selectedCategory, pickupVillage, dropoffVillage, selectedVehicle,
      actualRoadDist, isCalculatingDist, customRestPickupVillage>>
draftVars ==
    <<prescriptionImg, medsList, showCustomRestForm, customRestName, customRestOrder>>
menuVars ==
    <<viewingRestaurant, currentVillage, roadDist, isCalculating, cart, customItemNote>>
formVars == <<selectionVars, draftVars, menuVars, distanceCalls>>
vars ==
    <<storeVars, now, calls, viewVars, isSubmitting, rateVars, alert, formVars>>


\* ------------------------------------------------------- pricing constants
\* DEFAULT_PRICING (config/constants): the values of the pricing table
basePrice == 10
pricePerKm == 3
minPrice == 15
sameVillagePrice == 25
deliveryBasePrice == 20
foodOutsidePricePerKm == 3
\* DEFAULT_PRICING.multipliers, in tenths; 0 stands for an entry that is not set
multipliers(v) == IF v = "CAR" THEN 12 ELSE IF v = "MOTORCYCLE" THEN 10 ELSE 0

\* a maximum that forgets its first argument, the floor
MaxFloorless(a, b) == b

Max(a, b) == IF a >= b THEN a ELSE b
\* Math.floor(n / d) in the place of Math.round
RoundDown(n, d) == n \div d

\* Math.round(n / d) for n >= 0, d > 0: the nearest integer, halves upwards
Round(n, d) == (2 * n + d) \div (2 * d)

\* ------------------------------------------------------------ documents
Loc(address, center, villageName) ==
    [address |-> address, center |-> center, villageName |-> villageName]

\* updateDoc(ref, fields): the fields given replace those of the document,
\* every other field of the document is kept
updateDoc(document, fields) ==
    [k \in DOMAIN document |->
        IF k \in DOMAIN fields THEN fields[k] ELSE document[k]]

Docs == {o \in DOMAIN orders : orders[o] # NullObj}
FreeIds == DOMAIN orders \ Docs
Terminal == {DELIVERED_RATED, CANCELLED}

\* the argument of handleCreateOrder: keys is the set of keys the object has
NoExtra ==
    [keys |-> {}, deliveryVillage |-> NULL, price |-> 0, distance |-> 0,
     pickup |-> NullObj, restaurantName |-> NULL, foodItems |-> <<>>]
Has(extraData, k) == k \in extraData.keys

\* ------------------------------------------------------------- pricing
\* an estimate without the flat price of a ride inside one village
estimatedPriceNoFlat(category, vehicle, pickup, dropoff, dist) ==
    IF dropoff = NULL THEN 0
    ELSE
      LET multiplier == IF multipliers(vehicle) # 0 THEN multipliers(vehicle) ELSE 10
      IN  IF category = "PHARMACY"
          THEN Max(deliveryBasePrice,
                   Round((deliveryBasePrice * 10 + dist * pricePerKm) * multiplier, 100))
          ELSE IF category = "FOOD" /\ pickup # dropoff
          THEN Round(dist * foodOutsidePricePerKm, 10)
          ELSE Max(minPrice,
                   Round((basePrice * 10 + dist * pricePerKm) * multiplier, 100))

\* an estimate that prices a pharmacy order as a ride
estimatedPriceNoPharmacy(category, vehicle, pickup, dropoff, dist) ==
    IF dropoff = NULL THEN 0
    ELSE
      LET multiplier == IF multipliers(vehicle) # 0 THEN multipliers(vehicle) ELSE 10
      IN  IF category = "TAXI" /\ pickup = dropoff
          THEN sameVillagePrice
          ELSE IF category = "FOOD" /\ pickup # dropoff
          THEN Round(dist * foodOutsidePricePerKm, 10)
          ELSE Max(minPrice,
                   Round((basePrice * 10 + dist * pricePerKm) * multiplier, 100))

\* the body of getEstimatedPrice as a function of the state it reads
estimatedPrice(category, vehicle, pickup, dropoff, dist) ==
    IF dropoff = NULL THEN 0
    ELSE
      LET multiplier == IF multipliers(vehicle) # 0 THEN multipliers(vehicle) ELSE 10
      IN  IF category = "TAXI" /\ pickup = dropoff
          THEN sameVillagePrice
          ELSE IF category = "PHARMACY"
          THEN Max(deliveryBasePrice,
                   Round((deliveryBasePrice * 10 + dist * pricePerKm) * multiplier, 100))
          ELSE IF category = "FOOD" /\ pickup # dropoff
          THEN Round(dist * foodOutsidePricePerKm, 10)
          ELSE Max(minPrice,
                   Round((basePrice * 10 + dist * pricePerKm) * multiplier, 100))

getEstimatedPrice(s) ==
    estimatedPrice(selectedCategory[s], selectedVehicle[s], pickupVillage[s],
                   dropoffVillage[s], actualRoadDist[s])

\* ------------------------------------------------------- store requests
\* A request a handler has sent to the store and the store has not answered:
\* the operation, the document it addresses (0 for addDoc), the fields it
\* carries, the status of the activeOrder the handler's closure held when it
\* was sent, and the message the handler opens once the request has succeeded.
\* calls is the set of these; a request leaves it when the store answers.
Call(s, op, id, data, seen, note) ==
    [sess |-> s, op |-> op, id |-> id, data |-> data, seen |-> seen, note |-> note]

Pending(op) == {c \in calls : c.op = op}

\* a handler sends a request (at most MaxCalls are outstanding at a time)
Send(c) ==
    /\ Cardinality(calls) < MaxCalls
    /\ c \notin calls
    /\ calls' = calls \cup {c}

\* --------------------------------------------------- realtime subscriptions
\* what a session keeps of a document of the orders listener: the fields the
\* handlers and the choice of the view read (the driver's name, phone and photo
\* are only displayed)
View(document) == [id |-> document.id, status |-> document.status]

\* all.find(o => ![DELIVERED_RATED, CANCELLED].includes(o.status)) || null,
\* over the customer's documents in the order of their ids
find ==
    LET open == {o \in Docs : orders[o].status \notin Terminal}
    IN  IF open = {} THEN NullObj
        ELSE View(orders[CHOOSE o \in open : \A q \in open : o <= q])

\* the orders listener of a session receives the current result set
OrdersSnapshot(s) ==
    /\ activeOrder[s] # find
    /\ activeOrder' = [activeOrder EXCEPT ![s] = find]
    /\ UNCHANGED <<storeVars, now, calls, incomingOffers, isSubmitting, rateVars,
                   alert, formVars>>

OffersOf(o) == {f \in offers : f.orderId = o}

\* the offers listener exists while the active order is WAITING_FOR_OFFERS
OffersSnapshot(s) ==
    /\ activeOrder[s] # NullObj
    /\ activeOrder[s].status = WAITING_FOR_OFFERS
    /\ incomingOffers[s] # OffersOf(activeOrder[s].id)
    /\ incomingOffers' = [incomingOffers EXCEPT ![s] = OffersOf(activeOrder[s].id)]
    /\ UNCHANGED <<storeVars, now, calls, activeOrder, isSubmitting, rateVars,
                   alert, formVars>>

\* ------------------------------------------------------------ acceptOffer
\* an update that stamps the courier and leaves the estimate as the price
AcceptFieldsKeepingEstimate(offer) ==
    [driverId |-> offer.driverId,
     driverName |-> offer.driverName,
     driverPhone |-> offer.driverPhone,
     driverPhoto |-> IF offer.driverPhoto # NULL THEN offer.driverPhoto ELSE NULL,
     status |-> ACCEPTED,
     acceptedAt |-> now]

AcceptFields(offer) ==
    [driverId |-> offer.driverId,
     driverName |-> offer.driverName,
     driverPhone |-> offer.driverPhone,
     driverPhoto |-> IF offer.driverPhoto # NULL THEN offer.driverPhoto ELSE NULL,
     status |-> ACCEPTED,
     acceptedAt |-> now,
     price |-> offer.price]

handleAcceptOffer(s, offer) ==
    /\ activeOrder[s] # NullObj
    /\ Send(Call(s, "accept", activeOrder[s].id, AcceptFields(offer),
                                   activeOrder[s].status, NullObj))
    /\ UNCHANGED <<storeVars, now, viewVars, isSubmitting, rateVars, alert, formVars>>

\* an accept button that is on screen whatever the status of the active order
AcceptClickAnyView(s, offer) ==
    /\ alert[s] = NULL
    /\ activeOrder[s] # NullObj
    /\ offer \in incomingOffers[s]
    /\ handleAcceptOffer(s, offer)

\* the accept button of an offer card, in the WAITING_FOR_OFFERS view
AcceptClick(s, offer) ==
    /\ alert[s] = NULL
    /\ activeOrder[s] # NullObj
    /\ activeOrder[s].status = WAITING_FOR_OFFERS
    /\ offer \in incomingOffers[s]
    /\ handleAcceptOffer(s, offer)

\* what the store does with an updateDoc request when it arrives
ApplyUpdate(c) == [orders EXCEPT ![c.id] = updateDoc(orders[c.id], c.data)]

AcceptLands(c) ==
    /\ c \in Pending("accept")
    /\ orders[c.id] # NullObj
    /\ orders' = ApplyUpdate(c)
    /\ calls' = calls \ {c}
    /\ UNCHANGED <<offers, notifications, now, viewVars, isSubmitting, rateVars,
                   alert, formVars>>

AcceptFails(c) ==
    /\ c \in Pending("accept")
    /\ calls' = calls \ {c}
    /\ alert' = [alert EXCEPT ![c.sess] = "AcceptFailed"]
    /\ UNCHANGED <<storeVars, now, viewVars, isSubmitting, rateVars, formVars>>

\* ----------------------------------------------------------------- cancel
\* the cancel button of the WAITING_FOR_OFFERS view: the update is sent and
\* its promise is dropped
CancelClick(s) ==
    /\ alert[s] = NULL
    /\ activeOrder[s] # NullObj
    /\ activeOrder[s].status = WAITING_FOR_OFFERS
    /\ Send(Call(s, "cancel", activeOrder[s].id, [status |-> CANCELLED],
                                   activeOrder[s].status, NullObj))
    /\ UNCHANGED <<storeVars, now, viewVars, isSubmitting, rateVars, alert, formVars>>

CancelLands(c) ==
    /\ c \in Pending("cancel")
    /\ orders[c.id] # NullObj
    /\ orders' = ApplyUpdate(c)
    /\ calls' = calls \ {c}
    /\ UNCHANGED <<offers, notifications, now, viewVars, isSubmitting, rateVars,
                   alert, formVars>>

CancelFails(c) ==
    /\ c \in Pending("cancel")
    /\ calls' = calls \ {c}
    /\ UNCHANGED <<storeVars, now, viewVars, isSubmitting, rateVars, alert, formVars>>

\* ------------------------------------------------------------------- rate
RateFields(s) ==
    [status |-> DELIVERED_RATED,
     rating |-> rating'[s],
     feedback |-> trim(feedback'[s]),
     ratedAt |-> now]

\* handleRateOrder, run with the stars at r and the feedback box holding f
handleRateOrder(s, r, f) ==
    /\ activeOrder[s] # NullObj
    /\ rating' = [rating EXCEPT ![s] = r]
    /\ feedback' = [feedback EXCEPT ![s] = f]
    /\ isSubmitting' = [isSubmitting EXCEPT ![s] = TRUE]
    /\ Send(Call(s, "rate", activeOrder[s].id, RateFields(s),
                 activeOrder[s].status, NullObj))
    /\ UNCHANGED <<storeVars, now, viewVars, alert, formVars>>

\* The DELIVERED view: the customer picks the stars (setRating), types the
\* feedback (setFeedback) and presses the confirm button, which is disabled
\* while isSubmitting.  The three are one step: the stars and the text are
\* read by handleRateOrder alone.
RateClick(s, r, f) ==
    /\ alert[s] = NULL
    /\ activeOrder[s] # NullObj
    /\ activeOrder[s].status = DELIVERED
    /\ ~isSubmitting[s]
    /\ handleRateOrder(s, r, f)

RateLands(c) ==
    /\ c \in Pending("rate")
    /\ orders[c.id] # NullObj
    /\ orders' = ApplyUpdate(c)
    /\ calls' = calls \ {c}
    /\ feedback' = [feedback EXCEPT ![c.sess] = ""]
    /\ rating' = [rating EXCEPT ![c.sess] = 5]
    /\ alert' = [alert EXCEPT ![c.sess] = "RatingSaved"]
    /\ isSubmitting' = [isSubmitting EXCEPT ![c.sess] = FALSE]
    /\ UNCHANGED <<offers, notifications, now, viewVars, formVars>>

RateFails(c) ==
    /\ c \in Pending("rate")
    /\ calls' = calls \ {c}
    /\ alert' = [alert EXCEPT ![c.sess] = "RatingFailed"]
    /\ isSubmitting' = [isSubmitting EXCEPT ![c.sess] = FALSE]
    /\ UNCHANGED <<storeVars, now, viewVars, rateVars, formVars>>

\* ----------------------------------------------------------------- create
finalVillageOf(s, extraData) ==
    IF Has(extraData, "deliveryVillage") /\ extraData.deliveryVillage # NULL
    THEN extraData.deliveryVillage ELSE dropoffVillage[s]

finalPriceOf(s, extraData) ==
    IF Has(extraData, "price") /\ extraData.price # 0
    THEN extraData.price ELSE getEstimatedPrice(s)

\* an orderData that carries no creation time
orderDataOfUnstamped(s, extraData) ==
    LET finalVillage == finalVillageOf(s, extraData)
        own ==
          [customerId |-> userId,
           category |-> selectedCategory[s],
           status |-> WAITING_FOR_OFFERS,
           createdAt |-> None,
           pickup |-> IF selectedCategory[s] = "TAXI" /\ pickupVillage[s] # NULL
                      THEN Loc(pickupVillage[s], pickupVillage[s], pickupVillage[s])
                      ELSE IF Has(extraData, "pickup") THEN extraData.pickup ELSE NullObj,
           dropoff |-> Loc(finalVillage, finalVillage, finalVillage),
           requestedVehicleType |-> selectedVehicle[s],
           price |-> finalPriceOf(s, extraData),
           distance |-> IF Has(extraData, "distance") /\ extraData.distance # 0
                        THEN extraData.distance ELSE actualRoadDist[s],
           prescriptionImage |-> prescriptionImg[s],
           restaurantName |-> NULL,
           foodItems |-> <<>>,
           driverId |-> NULL, driverName |-> NULL, driverPhone |-> NULL,
           driverPhoto |-> NULL, acceptedAt |-> None,
           rating |-> None, feedback |-> NULL, ratedAt |-> None]
    IN  [k \in DOMAIN own |-> IF Has(extraData, k) THEN extraData[k] ELSE own[k]]

\* the object literal orderData, its last entry being ...extraData.  The
\* free-text and contact fields (customerPhone, paymentMethod, pickupNotes,
\* dropoffNotes, customNote) are carried to the store unread by the dashboard
\* and are left out.  A field the document does not have is NULL,
\* None or NullObj.
orderDataOf(s, extraData) ==
    LET finalVillage == finalVillageOf(s, extraData)
        own ==
          [customerId |-> userId,
           category |-> selectedCategory[s],
           status |-> WAITING_FOR_OFFERS,
           createdAt |-> now,
           pickup |-> IF selectedCategory[s] = "TAXI" /\ pickupVillage[s] # NULL
                      THEN Loc(pickupVillage[s], pickupVillage[s], pickupVillage[s])
                      ELSE IF Has(extraData, "pickup") THEN extraData.pickup ELSE NullObj,
           dropoff |-> Loc(finalVillage, finalVillage, finalVillage),
           requestedVehicleType |-> selectedVehicle[s],
           price |-> finalPriceOf(s, extraData),
           distance |-> IF Has(extraData, "distance") /\ extraData.distance # 0
                        THEN extraData.distance ELSE actualRoadDist[s],
           prescriptionImage |-> prescriptionImg[s],
           restaurantName |-> NULL,
           foodItems |-> <<>>,
           driverId |-> NULL, driverName |-> NULL, driverPhone |-> NULL,
           driverPhoto |-> NULL, acceptedAt |-> None,
           rating |-> None, feedback |-> NULL, ratedAt |-> None]
    IN  [k \in DOMAIN own |-> IF Has(extraData, k) THEN extraData[k] ELSE own[k]]

\* the WhatsApp message of a new order: its route and its total
whatsappMsgOf(s, extraData) ==
    LET orderData == orderDataOf(s, extraData)
    IN  [pickup |-> IF orderData.pickup # NullObj
                    THEN orderData.pickup.villageName ELSE "myLocation",
         dropoff |-> finalVillageOf(s, extraData),
         price |-> finalPriceOf(s, extraData)]

\* a handler that raises isSubmitting before it validates the dropoff village
handleCreateOrderBusyFirst(s, extraData) ==
    IF finalVillageOf(s, extraData) = NULL
    THEN /\ isSubmitting' = [isSubmitting EXCEPT ![s] = TRUE]
         /\ alert' = [alert EXCEPT ![s] = "SelectDropoff"]
         /\ UNCHANGED <<storeVars, now, calls, viewVars, rateVars, selectionVars,
                        draftVars, distanceCalls>>
    ELSE /\ isSubmitting' = [isSubmitting EXCEPT ![s] = TRUE]
         /\ Send(Call(s, "create", 0, orderDataOf(s, extraData),
                                        NULL, whatsappMsgOf(s, extraData)))
         /\ UNCHANGED <<storeVars, now, viewVars, rateVars, alert, selectionVars,
                        draftVars, distanceCalls>>

handleCreateOrder(s, extraData) ==
    IF finalVillageOf(s, extraData) = NULL
    THEN /\ alert' = [alert EXCEPT ![s] = "SelectDropoff"]
         /\ UNCHANGED <<storeVars, now, calls, viewVars, isSubmitting, rateVars,
                        selectionVars, draftVars, distanceCalls>>
    ELSE /\ isSubmitting' = [isSubmitting EXCEPT ![s] = TRUE]
         /\ Send(Call(s, "create", 0, orderDataOf(s, extraData),
                                        NULL, whatsappMsgOf(s, extraData)))
         /\ UNCHANGED <<storeVars, now, viewVars, rateVars, alert, selectionVars,
                        draftVars, distanceCalls>>

\* addDoc has stored the document under a fresh id; the handler goes on
CreateLands(c) ==
    /\ c \in Pending("create")
    /\ \E o \in FreeIds :
          orders' = [orders EXCEPT ![o] = [k \in DOMAIN c.data \cup {"id"} |->
                                              IF k = "id" THEN o ELSE c.data[k]]]
    /\ calls' = calls \ {c}
    /\ notifications' = Append(notifications, c.note)
    /\ prescriptionImg' = [prescriptionImg EXCEPT ![c.sess] = NULL]
    /\ medsList' = [medsList EXCEPT ![c.sess] = ""]
    /\ showCustomRestForm' = [showCustomRestForm EXCEPT ![c.sess] = FALSE]
    /\ customRestName' = [customRestName EXCEPT ![c.sess] = ""]
    /\ customRestOrder' = [customRestOrder EXCEPT ![c.sess] = ""]
    /\ isSubmitting' = [isSubmitting EXCEPT ![c.sess] = FALSE]
    /\ UNCHANGED <<offers, now, viewVars, rateVars, alert, selectionVars, menuVars,
                   distanceCalls>>

\* addDoc has stored the document and the message to the operator fails.
\* Either window.open gives no window (the popup is blocked) and the handler
\* goes on as if it had, or building or opening the message throws
\* (encodeURIComponent on a malformed name or note) inside the try block, and
\* the resets after it are skipped for the catch branch.
CreateLandsUnnotified(c, thrown) ==
    /\ c \in Pending("create")
    /\ \E o \in FreeIds :
          orders' = [orders EXCEPT ![o] = [k \in DOMAIN c.data \cup {"id"} |->
                                              IF k = "id" THEN o ELSE c.data[k]]]
    /\ calls' = calls \ {c}
    /\ isSubmitting' = [isSubmitting EXCEPT ![c.sess] = FALSE]
    /\ IF thrown
       THEN /\ alert' = [alert EXCEPT ![c.sess] = "CreateFailed"]
            /\ UNCHANGED draftVars
       ELSE /\ prescriptionImg' = [prescriptionImg EXCEPT ![c.sess] = NULL]
            /\ medsList' = [medsList EXCEPT ![c.sess] = ""]
            /\ showCustomRestForm' = [showCustomRestForm EXCEPT ![c.sess] = FALSE]
            /\ customRestName' = [customRestName EXCEPT ![c.sess] = ""]
            /\ customRestOrder' = [customRestOrder EXCEPT ![c.sess] = ""]
            /\ UNCHANGED alert
    /\ UNCHANGED <<offers, notifications, now, viewVars, rateVars, selectionVars, menuVars,
                   distanceCalls>>

CreateFails(c) ==
    /\ c \in Pending("create")
    /\ calls' = calls \ {c}
    /\ alert' = [alert EXCEPT ![c.sess] = "CreateFailed"]
    /\ isSubmitting' = [isSubmitting EXCEPT ![c.sess] = FALSE]
    /\ UNCHANGED <<storeVars, now, viewVars, rateVars, formVars>>

\* room for one more document in the store of the model
Room == Cardinality(Docs) + Cardinality(Pending("create")) < Cardinality(DOMAIN orders)

\* the creation form is on screen and nothing covers it: no alert box, no
\* active order, neither of the two full-screen overlays
FormShown(s) ==
    /\ alert[s] = NULL
    /\ activeOrder[s] = NullObj
    /\ ~showCustomRestForm[s]
    /\ viewingRestaurant[s] = NULL

\* the disabled attribute of the submit button of the taxi and pharmacy forms
SubmitDisabled(s) ==
    isSubmitting[s] \/ dropoffVillage[s] = NULL \/ isCalculatingDist[s]

\* the submit button of the taxi and of the pharmacy form
SubmitOrder(s) ==
    /\ Room
    /\ FormShown(s)
    /\ selectedCategory[s] # "FOOD"
    /\ ~SubmitDisabled(s)
    /\ handleCreateOrder(s, NoExtra)
    /\ UNCHANGED menuVars

\* the submit button of the "another restaurant" form
SubmitCustomRest(s) ==
    /\ alert[s] = NULL
    /\ showCustomRestForm[s]
    /\ ~isSubmitting[s]
    /\ IF customRestName[s] = "" \/ customRestPickupVillage[s] = NULL
          \/ dropoffVillage[s] = NULL \/ customRestOrder[s] = ""
       THEN /\ alert' = [alert EXCEPT ![s] = "CompleteData"]
            /\ UNCHANGED <<storeVars, now, calls, viewVars, isSubmitting, rateVars, formVars>>
       ELSE Room /\ UNCHANGED menuVars /\ handleCreateOrder(s,
               [keys |-> {"pickup", "customNote", "restaurantName", "deliveryVillage",
                          "distance"},
                pickup |-> Loc(customRestName[s], customRestPickupVillage[s],
                               customRestPickupVillage[s]),
                restaurantName |-> customRestName[s],
                deliveryVillage |-> dropoffVillage[s],
                distance |-> 0,
                price |-> 0,
                foodItems |-> <<>>])

DismissAlert(s) ==
    /\ alert[s] # NULL
    /\ alert' = [alert EXCEPT ![s] = NULL]
    /\ UNCHANGED <<storeVars, now, calls, viewVars, isSubmitting, rateVars, formVars>>

\* every timestamp a document or a request carries
Stamps ==
    UNION {{orders[o].createdAt, orders[o].acceptedAt, orders[o].ratedAt} : o \in Docs}
      \cup UNION {{c.data[k] : k \in DOMAIN c.data \cap {"createdAt", "acceptedAt", "ratedAt"}} :
                   c \in calls}

\* the clock moves on once the present instant has been read
Tick ==
    /\ now < MaxTime
    /\ now \in Stamps
    /\ now' = now + 1
    /\ UNCHANGED <<storeVars, calls, viewVars, isSubmitting, rateVars, alert, formVars>>

\* ---------------------------------------------------------------- couriers
\* The courier application is not part of the dashboard; its three writes
\* follow the lifecycle rules of the design document.
driverNameOf(d) == IF d = "d1" THEN "Adel" ELSE "Bakr"
driverPhoneOf(d) == IF d = "d1" THEN "0101" ELSE "0102"

\* a courier bids on an open order, once per order; the store names the offer
Offer(d, o, p) ==
    [id |-> <<d, o>>, orderId |-> o, driverId |-> d, driverName |-> driverNameOf(d),
     driverPhone |-> driverPhoneOf(d), driverPhoto |-> driverPhotoOf(d), price |-> p]

SubmitOffer(d, o, p) ==
    /\ o \in Docs
    /\ orders[o].status = WAITING_FOR_OFFERS
    /\ Cardinality(offers) < MaxOffers
    /\ \A f \in offers : f.id # <<d, o>>
    /\ offers' = offers \cup {Offer(d, o, p)}
    /\ UNCHANGED <<orders, notifications, now, calls, viewVars, isSubmitting, rateVars,
                   alert, formVars>>

StartDelivery(o) ==
    /\ o \in Docs
    /\ orders[o].status = ACCEPTED
    /\ orders' = [orders EXCEPT ![o].status = ACTIVE_DELIVERY]
    /\ UNCHANGED <<offers, notifications, now, calls, viewVars, isSubmitting, rateVars,
                   alert, formVars>>

markDelivered(o) ==
    /\ o \in Docs
    /\ orders[o].status = ACTIVE_DELIVERY
    /\ orders' = [orders EXCEPT ![o].status = DELIVERED]
    /\ UNCHANGED <<offers, notifications, now, calls, viewVars, isSubmitting, rateVars,
                   alert, formVars>>

\* ------------------------------------------------------------ specification
Form(category, pickup, dropoff, vehicle, dist, img, meds, show, name, order, restPickup) ==
    [selectedCategory |-> category, pickupVillage |-> pickup, dropoffVillage |-> dropoff,
     selectedVehicle |-> vehicle, actualRoadDist |-> dist, prescriptionImg |-> img,
     medsList |-> meds, showCustomRestForm |-> show, customRestName |-> name,
     customRestOrder |-> order, customRestPickupVillage |-> restPickup]

\* the form of a freshly mounted dashboard (the useState initial values)
BlankForm == Form("TAXI", NULL, NULL, "MOTORCYCLE", 0, NULL, "", FALSE, "", "", NULL)

\* forms the customer has filled in, with the road distance already answered
TaxiForm == Form("TAXI", "v1", "v2", "CAR", 100, NULL, "", FALSE, "", "", NULL)
PharmacyForm == Form("PHARMACY", NULL, "v1", "TOKTOK", 20, "img", "meds", FALSE, "", "", NULL)
CustomRestForm ==
    Form("FOOD", NULL, "v2", "MOTORCYCLE", 0, NULL, "", TRUE, "Koshary", "two plates", "v1")

\* the state after the dashboards are mounted, with session s holding form f[s]
\* for some f of forms
Mounted(forms) ==
    /\ offers = {}
    /\ notifications = <<>>
    /\ now = 0
    /\ calls = {}
    /\ activeOrder = [s \in Sessions |-> NullObj]
    /\ incomingOffers = [s \in Sessions |-> {}]
    /\ isSubmitting = [s \in Sessions |-> FALSE]
    /\ rating = [s \in Sessions |-> 5]
    /\ feedback = [s \in Sessions |-> ""]
    /\ alert = [s \in Sessions |-> NULL]
    /\ isCalculatingDist = [s \in Sessions |-> FALSE]
    /\ viewingRestaurant = [s \in Sessions |-> NULL]
    /\ currentVillage = [s \in Sessions |-> NULL]
    /\ roadDist = [s \in Sessions |-> 0]
    /\ isCalculating = [s \in Sessions |-> FALSE]
    /\ cart = [s \in Sessions |-> <<>>]
    /\ customItemNote = [s \in Sessions |-> ""]
    /\ distanceCalls = {}
    /\ \E f \in forms :
          /\ selectedCategory = [s \in Sessions |-> f[s].selectedCategory]
          /\ pickupVillage = [s \in Sessions |-> f[s].pickupVillage]
          /\ dropoffVillage = [s \in Sessions |-> f[s].dropoffVillage]
          /\ selectedVehicle = [s \in Sessions |-> f[s].selectedVehicle]
          /\ actualRoadDist = [s \in Sessions |-> f[s].actualRoadDist]
          /\ prescriptionImg = [s \in Sessions |-> f[s].prescriptionImg]
          /\ medsList = [s \in Sessions |-> f[s].medsList]
          /\ showCustomRestForm = [s \in Sessions |-> f[s].showCustomRestForm]
          /\ customRestName = [s \in Sessions |-> f[s].customRestName]
          /\ customRestOrder = [s \in Sessions |-> f[s].customRestOrder]
          /\ customRestPickupVillage = [s \in Sessions |-> f[s].customRestPickupVillage]

InitWith(forms) ==
    /\ orders = [o \in OrderIds |-> NullObj]
    /\ Mounted(forms)

\* The order lifecycle: the customer has the same request typed in on both
\* devices; the sessions, the store and the couriers run in any order.
Init == InitWith({[s \in Sessions |-> f] : f \in {TaxiForm, PharmacyForm}})

Next ==
    \/ \E s \in Sessions : OrdersSnapshot(s)
    \/ \E s \in Sessions : OffersSnapshot(s)
    \/ \E s \in Sessions : \E offer \in incomingOffers[s] : AcceptClick(s, offer)
    \/ \E s \in Sessions : CancelClick(s)
    \/ \E s \in Sessions : \E in \in RateInputs : RateClick(s, in[1], in[2])
    \/ \E s \in Sessions : SubmitOrder(s)
    \/ \E s \in Sessions : DismissAlert(s)
    \/ \E c \in calls : AcceptLands(c)
    \/ \E c \in calls : CancelLands(c)
    \/ \E c \in calls : RateLands(c)
    \/ \E c \in calls : CreateLands(c)
    \/ \E d \in Drivers : \E o \in OrderIds : \E p \in OfferPrices(d) : SubmitOffer(d, o, p)
    \/ \E o \in OrderIds : StartDelivery(o)
    \/ \E o \in OrderIds : markDelivered(o)

Spec == Init /\ [][Next]_vars

\* ----------------------------------------------------- the create operation
\* the requests handleCreateOrder is called with: none (the taxi and pharmacy
\* buttons), the menu checkout's, the "another restaurant" form's
MenuExtra(village, price, distance, items) ==
    [keys |-> {"restaurantId", "restaurantName", "foodItems", "price", "distance",
               "deliveryVillage", "customNote", "pickup"},
     deliveryVillage |-> village, price |-> price, distance |-> distance,
     pickup |-> Loc("Abu Ali", "r1", "v1"), restaurantName |-> "Abu Ali",
     foodItems |-> items]

CustomExtra(village) ==
    [keys |-> {"pickup", "customNote", "restaurantName", "deliveryVillage", "distance"},
     deliveryVillage |-> village, price |-> 0, distance |-> 0,
     pickup |-> Loc("Koshary", "v1", "v1"), restaurantName |-> "Koshary",
     foodItems |-> <<>>]

ExtraDatas ==
    {NoExtra, CustomExtra(NULL), CustomExtra("v2")}
      \cup {MenuExtra("v2", p, d, <<>>) : p \in {0, 65}, d \in {0, 20}}

\* handleCreateOrder called with a request, whatever the form holds
CallCreate(s, extraData) ==
    /\ alert[s] = NULL
    /\ finalVillageOf(s, extraData) # NULL => Room
    /\ handleCreateOrder(s, extraData)
    /\ UNCHANGED menuVars

InitCreate ==
    InitWith([Sessions -> {BlankForm, TaxiForm, PharmacyForm, CustomRestForm}])

NextCreate ==
    \/ \E s \in Sessions : \E extraData \in ExtraDatas : CallCreate(s, extraData)
    \/ \E s \in Sessions : SubmitOrder(s)
    \/ \E s \in Sessions : SubmitCustomRest(s)
    \/ \E s \in Sessions : DismissAlert(s)
    \/ \E s \in Sessions : OrdersSnapshot(s)
    \/ \E c \in calls : CreateLands(c)
    \/ \E c \in calls : CreateFails(c)
    \/ \E c \in calls : \E thrown \in BOOLEAN : CreateLandsUnnotified(c, thrown)
    \/ Tick

SpecCreate == InitCreate /\ [][NextCreate]_vars

\* ------------------------------------------------------- composing an order
\* The places between which road distances are asked: the villages, the fixed
\* reference point of pharmacy orders (refLat, refLng) and the restaurant.
Villages == {"v1", "v2"}
ReferencePoint == "ref"
\* the restaurant of the restaurants collection: it stands in village v1
restaurant == [id |-> "r1", name |-> "Abu Ali", address |-> "v1"]

\* getRoadDistance(from, to) when it answers: tenths of a kilometre
RoadDistance(from, to) ==
    IF from = to THEN 0
    ELSE IF {from, to} = {"v1", "v2"} THEN 100
    ELSE IF {from, to} = {ReferencePoint, "v1"} THEN 20
    ELSE IF {from, to} = {ReferencePoint, "v2"} THEN 50
    ELSE IF {from, to} = {restaurant.id, "v1"} THEN 10
    ELSE 90

\* a getRoadDistance request: the component whose effect asked ("dashboard" or
\* "menu") and the two places; a request asked again while it is outstanding
\* is held once
DistanceCall(s, view, from, to) == [sess |-> s, view |-> view, from |-> from, to |-> to]

Ask(c) ==
    /\ c \in distanceCalls \/ Cardinality(distanceCalls) < MaxDistanceCalls
    /\ distanceCalls' = distanceCalls \cup {c}

\* the effect on [pickupVillage, dropoffVillage, selectedCategory], run with
\* the values of the render that follows a change of one of them
distanceEffect(s, category, pickup, dropoff) ==
    IF pickup # NULL /\ dropoff # NULL
    THEN IF pickup = dropoff
         THEN /\ actualRoadDist' = [actualRoadDist EXCEPT ![s] = 0]
              /\ UNCHANGED <<isCalculatingDist, distanceCalls>>
         ELSE /\ isCalculatingDist' = [isCalculatingDist EXCEPT ![s] = TRUE]
              /\ Ask(DistanceCall(s, "dashboard", pickup, dropoff))
              /\ UNCHANGED actualRoadDist
    ELSE IF category = "PHARMACY" /\ dropoff # NULL
         THEN /\ isCalculatingDist' = [isCalculatingDist EXCEPT ![s] = TRUE]
              /\ Ask(DistanceCall(s, "dashboard", ReferencePoint, dropoff))
              /\ UNCHANGED actualRoadDist
         ELSE UNCHANGED <<actualRoadDist, isCalculatingDist, distanceCalls>>

\* the category buttons
SelectCategory(s, category) ==
    /\ FormShown(s)
    /\ category # selectedCategory[s]
    /\ selectedCategory' = [selectedCategory EXCEPT ![s] = category]
    /\ distanceEffect(s, category, pickupVillage[s], dropoffVillage[s])
    /\ UNCHANGED <<storeVars, now, calls, viewVars, isSubmitting, rateVars, alert,
                   pickupVillage, dropoffVillage, selectedVehicle,
                   customRestPickupVillage, draftVars, menuVars>>

\* the pickup selector of the taxi form
SelectPickup(s, village) ==
    /\ FormShown(s)
    /\ selectedCategory[s] = "TAXI"
    /\ village # pickupVillage[s]
    /\ pickupVillage' = [pickupVillage EXCEPT ![s] = village]
    /\ distanceEffect(s, selectedCategory[s], village, dropoffVillage[s])
    /\ UNCHANGED <<storeVars, now, calls, viewVars, isSubmitting, rateVars, alert,
                   selectedCategory, dropoffVillage, selectedVehicle,
                   customRestPickupVillage, draftVars, menuVars>>

\* the dropoff selector of the taxi form, of the pharmacy form and of the
\* "another restaurant" form
SelectDropoff(s, village) ==
    /\ alert[s] = NULL
    /\ viewingRestaurant[s] = NULL
    /\ \/ showCustomRestForm[s]
       \/ activeOrder[s] = NullObj /\ selectedCategory[s] \in {"TAXI", "PHARMACY"}
    /\ village # dropoffVillage[s]
    /\ dropoffVillage' = [dropoffVillage EXCEPT ![s] = village]
    /\ distanceEffect(s, selectedCategory[s], pickupVillage[s], village)
    /\ UNCHANGED <<storeVars, now, calls, viewVars, isSubmitting, rateVars, alert,
                   selectedCategory, pickupVillage, selectedVehicle,
                   customRestPickupVillage, draftVars, menuVars>>

\* getRoadDistance of the dashboard answers: .then
DistanceResolves(c) ==
    /\ c \in distanceCalls /\ c.view = "dashboard"
    /\ distanceCalls' = distanceCalls \ {c}
    /\ actualRoadDist' = [actualRoadDist EXCEPT ![c.sess] = RoadDistance(c.from, c.to)]
    /\ isCalculatingDist' = [isCalculatingDist EXCEPT ![c.sess] = FALSE]
    /\ UNCHANGED <<storeVars, now, calls, viewVars, isSubmitting, rateVars, alert,
                   selectedCategory, pickupVillage, dropoffVillage, selectedVehicle,
                   customRestPickupVillage, draftVars, menuVars>>

\* a .catch that leaves the calculating flag as it is
DistanceRejectsKeepingFlag(c) ==
    /\ c \in distanceCalls /\ c.view = "dashboard"
    /\ distanceCalls' = distanceCalls \ {c}
    /\ UNCHANGED <<storeVars, now, calls, viewVars, isSubmitting, rateVars, alert,
                   selectedCategory, pickupVillage, dropoffVillage, selectedVehicle,
                   actualRoadDist, isCalculatingDist, customRestPickupVillage, draftVars,
                   menuVars>>

\* getRoadDistance of the dashboard fails: .catch
DistanceRejects(c) ==
    /\ c \in distanceCalls /\ c.view = "dashboard"
    /\ distanceCalls' = distanceCalls \ {c}
    /\ isCalculatingDist' = [isCalculatingDist EXCEPT ![c.sess] = FALSE]
    /\ UNCHANGED <<storeVars, now, calls, viewVars, isSubmitting, rateVars, alert,
                   selectedCategory, pickupVillage, dropoffVillage, selectedVehicle,
                   actualRoadDist, customRestPickupVillage, draftVars, menuVars>>

\* the two "another restaurant" buttons of the FOOD tab
OpenCustomRest(s) ==
    /\ FormShown(s)
    /\ selectedCategory[s] = "FOOD"
    /\ showCustomRestForm' = [showCustomRestForm EXCEPT ![s] = TRUE]
    /\ UNCHANGED <<storeVars, now, calls, viewVars, isSubmitting, rateVars, alert,
                   selectionVars, prescriptionImg, medsList, customRestName,
                   customRestOrder, menuVars, distanceCalls>>

\* the close button of the "another restaurant" form; what was typed stays
CloseCustomRest(s) ==
    /\ alert[s] = NULL
    /\ showCustomRestForm[s]
    /\ showCustomRestForm' = [showCustomRestForm EXCEPT ![s] = FALSE]
    /\ UNCHANGED <<storeVars, now, calls, viewVars, isSubmitting, rateVars, alert,
                   selectionVars, prescriptionImg, medsList, customRestName,
                   customRestOrder, menuVars, distanceCalls>>

\* the customer names the restaurant, writes the order and picks the village
\* of the restaurant
FillCustomRest(s, village) ==
    /\ alert[s] = NULL
    /\ showCustomRestForm[s]
    /\ customRestName[s] = "" \/ village # customRestPickupVillage[s]
    /\ customRestName' = [customRestName EXCEPT ![s] = "Koshary"]
    /\ customRestOrder' = [customRestOrder EXCEPT ![s] = "two plates"]
    /\ customRestPickupVillage' = [customRestPickupVillage EXCEPT ![s] = village]
    /\ UNCHANGED <<storeVars, now, calls, viewVars, isSubmitting, rateVars, alert,
                   selectedCategory, pickupVillage, dropoffVillage, selectedVehicle,
                   actualRoadDist, isCalculatingDist, prescriptionImg, medsList,
                   showCustomRestForm, menuVars, distanceCalls>>

\* ------------------------------------------------------ the restaurant menu
\* the effect of RestaurantMenuView on [restaurant, currentVillage]
menuDistanceEffect(s, village) ==
    IF village # NULL
    THEN /\ isCalculating' = [isCalculating EXCEPT ![s] = TRUE]
         /\ Ask(DistanceCall(s, "menu", restaurant.id, village))
    ELSE UNCHANGED <<isCalculating, distanceCalls>>

\* a restaurant card of the FOOD tab: RestaurantMenuView is mounted
OpenMenu(s) ==
    /\ FormShown(s)
    /\ selectedCategory[s] = "FOOD"
    /\ viewingRestaurant' = [viewingRestaurant EXCEPT ![s] = restaurant.id]
    /\ currentVillage' = [currentVillage EXCEPT ![s] = dropoffVillage[s]]
    /\ menuDistanceEffect(s, dropoffVillage[s])
    /\ UNCHANGED <<storeVars, now, calls, viewVars, isSubmitting, rateVars, alert,
                   selectionVars, draftVars, roadDist, cart, customItemNote>>

\* the delivery village selector of the menu
SelectMenuVillage(s, village) ==
    /\ alert[s] = NULL
    /\ viewingRestaurant[s] # NULL
    /\ village # currentVillage[s]
    /\ currentVillage' = [currentVillage EXCEPT ![s] = village]
    /\ menuDistanceEffect(s, village)
    /\ UNCHANGED <<storeVars, now, calls, viewVars, isSubmitting, rateVars, alert,
                   selectionVars, draftVars, viewingRestaurant, roadDist, cart,
                   customItemNote>>

MenuDistanceResolves(c) ==
    /\ c \in distanceCalls /\ c.view = "menu"
    /\ distanceCalls' = distanceCalls \ {c}
    /\ roadDist' = [roadDist EXCEPT ![c.sess] = RoadDistance(c.from, c.to)]
    /\ isCalculating' = [isCalculating EXCEPT ![c.sess] = FALSE]
    /\ UNCHANGED <<storeVars, now, calls, viewVars, isSubmitting, rateVars, alert,
                   selectionVars, draftVars, viewingRestaurant, currentVillage, cart,
                   customItemNote>>

MenuDistanceRejects(c) ==
    /\ c \in distanceCalls /\ c.view = "menu"
    /\ distanceCalls' = distanceCalls \ {c}
    /\ isCalculating' = [isCalculating EXCEPT ![c.sess] = FALSE]
    /\ UNCHANGED <<storeVars, now, calls, viewVars, isSubmitting, rateVars, alert,
                   selectionVars, draftVars, viewingRestaurant, currentVillage, roadDist,
                   cart, customItemNote>>

\* the special-requests box of the menu
TypeItemNote(s) ==
    /\ alert[s] = NULL
    /\ viewingRestaurant[s] # NULL
    /\ customItemNote[s] = ""
    /\ customItemNote' = [customItemNote EXCEPT ![s] = "no onions"]
    /\ UNCHANGED <<storeVars, now, calls, viewVars, isSubmitting, rateVars, alert,
                   selectionVars, draftVars, viewingRestaurant, currentVillage, roadDist,
                   isCalculating, cart, distanceCalls>>

\* restaurant.menu: the items on offer; the collection does not keep the ids of
\* a menu apart, and the third item carries the id of the first
menu ==
    {[id |-> "m1", name |-> "Koshary", price |-> 30],
     [id |-> "m2", name |-> "Rice pudding", price |-> 15],
     [id |-> "m1", name |-> "Koshary large", price |-> 45]}

\* the places of the cart that hold the item of that id
Holding(items, id) == {i \in DOMAIN items : items[i].id = id}

\* a minus button that keeps the items whose quantity has reached 0
removeFromCartUnfiltered(s, id) ==
    /\ alert[s] = NULL
    /\ viewingRestaurant[s] # NULL
    /\ cart' = [cart EXCEPT ![s] =
                  [i \in DOMAIN cart[s] |->
                      IF cart[s][i].id = id
                      THEN [cart[s][i] EXCEPT !.quantity = Max(0, cart[s][i].quantity - 1)]
                      ELSE cart[s][i]]]
    /\ UNCHANGED <<storeVars, now, calls, viewVars, isSubmitting, rateVars, alert,
                   selectionVars, draftVars, viewingRestaurant, currentVillage, roadDist,
                   isCalculating, customItemNote, distanceCalls>>

\* an update of the cart that appends the item without looking for it
addItemAlwaysAppending(prev, item) ==
    Append(prev, [id |-> item.id, name |-> item.name, price |-> item.price,
                  quantity |-> 1])

\* the update addToCart passes to setCart
addItem(prev, item) ==
    IF Holding(prev, item.id) # {}
    THEN [i \in DOMAIN prev |->
            IF prev[i].id = item.id
            THEN [prev[i] EXCEPT !.quantity = prev[i].quantity + 1]
            ELSE prev[i]]
    ELSE Append(prev, [id |-> item.id, name |-> item.name, price |-> item.price,
                       quantity |-> 1])

\* the update removeFromCart passes to setCart
removeItem(prev, id) ==
    SelectSeq([i \in DOMAIN prev |->
                  IF prev[i].id = id
                  THEN [prev[i] EXCEPT !.quantity = Max(0, prev[i].quantity - 1)]
                  ELSE prev[i]],
              LAMBDA i : i.quantity > 0)

\* the plus button of a menu item (a quantity goes up to MaxQuantity)
addToCart(s, item) ==
    /\ alert[s] = NULL
    /\ viewingRestaurant[s] # NULL
    /\ \A i \in Holding(cart[s], item.id) : cart[s][i].quantity < MaxQuantity
    /\ cart' = [cart EXCEPT ![s] = addItem(cart[s], item)]
    /\ UNCHANGED <<storeVars, now, calls, viewVars, isSubmitting, rateVars, alert,
                   selectionVars, draftVars, viewingRestaurant, currentVillage, roadDist,
                   isCalculating, customItemNote, distanceCalls>>

\* the minus button of a menu item
removeFromCart(s, id) ==
    /\ alert[s] = NULL
    /\ viewingRestaurant[s] # NULL
    /\ cart' = [cart EXCEPT ![s] = removeItem(cart[s], id)]
    /\ UNCHANGED <<storeVars, now, calls, viewVars, isSubmitting, rateVars, alert,
                   selectionVars, draftVars, viewingRestaurant, currentVillage, roadDist,
                   isCalculating, customItemNote, distanceCalls>>

RECURSIVE SumItems(_)
SumItems(items) ==
    IF items = <<>> THEN 0
    ELSE items[1].price * items[1].quantity + SumItems(Tail(items))

totalFoodItemsPrice(s) == SumItems(cart[s])

getDeliveryPrice(s) ==
    IF currentVillage[s] = NULL THEN 0
    ELSE IF restaurant.address = currentVillage[s] THEN sameVillagePrice
    ELSE Round(roadDist[s] * foodOutsidePricePerKm, 10)

finalEstimatedPrice(s) == totalFoodItemsPrice(s) + getDeliveryPrice(s)

\* the disabled attribute of the confirm button of the menu
ConfirmDisabled(s) ==
    \/ cart[s] = <<>> /\ customItemNote[s] = ""
    \/ currentVillage[s] = NULL
    \/ isCalculating[s]

\* RestaurantMenuView is unmounted: its state is gone and the answers to its
\* requests are dropped
unmountMenu(s) ==
    /\ viewingRestaurant' = [viewingRestaurant EXCEPT ![s] = NULL]
    /\ currentVillage' = [currentVillage EXCEPT ![s] = NULL]
    /\ roadDist' = [roadDist EXCEPT ![s] = 0]
    /\ isCalculating' = [isCalculating EXCEPT ![s] = FALSE]
    /\ cart' = [cart EXCEPT ![s] = <<>>]
    /\ customItemNote' = [customItemNote EXCEPT ![s] = ""]

\* the back button of the menu: onClose
CloseMenu(s) ==
    /\ alert[s] = NULL
    /\ viewingRestaurant[s] # NULL
    /\ unmountMenu(s)
    /\ distanceCalls' = {c \in distanceCalls : ~(c.sess = s /\ c.view = "menu")}
    /\ UNCHANGED <<storeVars, now, calls, viewVars, isSubmitting, rateVars, alert,
                   selectionVars, draftVars>>

\* the confirm button of the menu: onConfirmOrder
ConfirmMenu(s) ==
    /\ alert[s] = NULL
    /\ viewingRestaurant[s] # NULL
    /\ ~ConfirmDisabled(s)
    /\ Room
    /\ handleCreateOrder(s, MenuExtra(currentVillage[s], finalEstimatedPrice(s), roadDist[s],
                                      cart[s]))
    /\ unmountMenu(s)

\* ordering from the dashboard of one device: the customer composes, the
\* distances are answered or not, the order is sent
Composers == {1}

NextCompose ==
    \/ \E s \in Composers : \E category \in Categories : SelectCategory(s, category)
    \/ \E s \in Composers : \E village \in Villages : SelectPickup(s, village)
    \/ \E s \in Composers : \E village \in Villages : SelectDropoff(s, village)
    \/ \E c \in distanceCalls : DistanceResolves(c)
    \/ \E c \in distanceCalls : DistanceRejects(c)
    \/ \E s \in Composers : OpenCustomRest(s)
    \/ \E s \in Composers : \E village \in Villages : FillCustomRest(s, village)
    \/ \E s \in Composers : CloseCustomRest(s)
    \/ \E s \in Composers : OpenMenu(s)
    \/ \E s \in Composers : CloseMenu(s)
    \/ \E s \in Composers : \E village \in Villages : SelectMenuVillage(s, village)
    \/ \E c \in distanceCalls : MenuDistanceResolves(c)
    \/ \E c \in distanceCalls : MenuDistanceRejects(c)
    \/ \E s \in Composers : TypeItemNote(s)
    \/ \E s \in Composers : ConfirmMenu(s)
    \/ \E s \in Composers : SubmitOrder(s)
    \/ \E s \in Composers : SubmitCustomRest(s)
    \/ \E s \in Composers : DismissAlert(s)
    \/ \E c \in calls : CreateLands(c)

InitCompose == InitWith({[s \in Sessions |-> BlankForm]})

SpecCompose == InitCompose /\ [][NextCompose]_vars

\* --------------------------------------------------------------- the cart
\* Ordering from the menu: the FOOD tab with the delivery village chosen, the
\* menu opened, items put into the cart and taken out, the order confirmed.
FoodForms ==
    {Form("FOOD", NULL, village, "MOTORCYCLE", 0, NULL, "", FALSE, "", "", NULL) :
        village \in Villages}

InitCart == InitWith({[s \in Sessions |-> f] : f \in FoodForms})

NextCart ==
    \/ \E s \in Composers : OpenMenu(s)
    \/ \E c \in distanceCalls : MenuDistanceResolves(c)
    \/ \E s \in Composers : \E item \in menu : addToCart(s, item)
    \/ \E s \in Composers : \E item \in menu : removeFromCart(s, item.id)
    \/ \E s \in Composers : TypeItemNote(s)
    \/ \E s \in Composers : CloseMenu(s)
    \/ \E s \in Composers : ConfirmMenu(s)
    \/ \E c \in calls : CreateLands(c)

SpecCart == InitCart /\ [][NextCart]_vars

\* ------------------------------------------------------------------ pricing
\* The distances (tenths of a kilometre) the dashboard may hold when an order
\* is sent: every one up to MaxDistance, and those of 2 km and of 10 km.
Distances == (0..MaxDistance) \cup {20, 100}

\* the forms an order can be sent from: every category, vehicle, pickup and
\* dropoff village and distance; a FOOD order is sent from the filled-in
\* "another restaurant" form
PricingForms ==
    {Form(category, pickup, dropoff, vehicle, dist, NULL, "",
          category = "FOOD", IF category = "FOOD" THEN "Koshary" ELSE "",
          IF category = "FOOD" THEN "two plates" ELSE "",
          IF category = "FOOD" THEN restPickup ELSE NULL) :
        category \in Categories, vehicle \in Vehicles,
        pickup \in Villages \cup {NULL}, dropoff \in Villages \cup {NULL},
        dist \in Distances, restPickup \in {"v1"}}

InitPricing == InitWith({[s \in Sessions |-> f] : f \in PricingForms})

NextPricing ==
    \/ \E s \in Sessions : SubmitOrder(s)
    \/ \E s \in Sessions : SubmitCustomRest(s)
    \/ \E s \in Sessions : DismissAlert(s)
    \/ \E c \in calls : CreateLands(c)

SpecPricing == InitPricing /\ [][NextPricing]_vars

\* ---------------------------------------------------------------- progress
\* One dashboard through the life of an order, with the store free to answer a
\* write, to fail it, or never to answer it: addDoc and updateDoc are awaited
\* without a timeout, so nothing in the dashboard ends a request that is not
\* answered.  The listeners deliver what the store holds; the customer and the
\* couriers act when they choose to.
InitLive == InitWith({[s \in Sessions |-> TaxiForm]})

NextLive ==
    \/ \E s \in Composers : OrdersSnapshot(s)
    \/ \E s \in Composers : OffersSnapshot(s)
    \/ \E s \in Composers : SubmitOrder(s)
    \/ \E s \in Composers : \E offer \in incomingOffers[s] : AcceptClick(s, offer)
    \/ \E s \in Composers : \E in \in RateInputs : RateClick(s, in[1], in[2])
    \/ \E s \in Composers : DismissAlert(s)
    \/ \E c \in calls : CreateLands(c)
    \/ \E c \in calls : CreateFails(c)
    \/ \E c \in calls : AcceptLands(c)
    \/ \E c \in calls : AcceptFails(c)
    \/ \E c \in calls : RateLands(c)
    \/ \E c \in calls : RateFails(c)
    \/ \E d \in Drivers : \E o \in OrderIds : \E p \in OfferPrices(d) : SubmitOffer(d, o, p)
    \/ \E o \in OrderIds : StartDelivery(o)
    \/ \E o \in OrderIds : markDelivered(o)
    \/ Tick

\* the realtime listeners of the mounted dashboard
Listeners == \E s \in Composers : OrdersSnapshot(s) \/ OffersSnapshot(s)

SpecLive == InitLive /\ [][NextLive]_vars /\ WF_vars(Listeners)

\* ------------------------------------------------------------ order again
\* The customer orders, may cancel, and orders again, on either device: the
\* store has room for MaxReorders documents and names each as it likes.
InitReorder ==
    /\ orders = [o \in 1..MaxReorders |-> NullObj]
    /\ Mounted({[s \in Sessions |-> TaxiForm]})

NextReorder ==
    \/ \E s \in Sessions : OrdersSnapshot(s)
    \/ \E s \in Sessions : OffersSnapshot(s)
    \/ \E s \in Sessions : SubmitOrder(s)
    \/ \E s \in Sessions : \E offer \in incomingOffers[s] : AcceptClick(s, offer)
    \/ \E s \in Sessions : CancelClick(s)
    \/ \E c \in calls : CreateLands(c)
    \/ \E c \in calls : AcceptLands(c)
    \/ \E c \in calls : CancelLands(c)
    \/ \E d \in Drivers : \E o \in DOMAIN orders : \E p \in OfferPrices(d) : SubmitOffer(d, o, p)

SpecReorder == InitReorder /\ [][NextReorder]_vars

\* ------------------------------------------------------- selecting villages
\* The selections of one dashboard and of its restaurant menu, and the answers
\* to the distance requests they cause.  Every request is answered in the end,
\* with a distance or with a failure; the customer selects when they choose to.
NextSelect ==
    \/ \E s \in Composers : \E category \in Categories : SelectCategory(s, category)
    \/ \E s \in Composers : \E village \in Villages : SelectPickup(s, village)
    \/ \E s \in Composers : \E village \in Villages : SelectDropoff(s, village)
    \/ \E s \in Composers : OpenMenu(s)
    \/ \E s \in Composers : \E village \in Villages : SelectMenuVillage(s, village)
    \/ \E s \in Composers : CloseMenu(s)
    \/ \E c \in distanceCalls : DistanceResolves(c)
    \/ \E c \in distanceCalls : DistanceRejects(c)
    \/ \E c \in distanceCalls : MenuDistanceResolves(c)
    \/ \E c \in distanceCalls : MenuDistanceRejects(c)

\* every getRoadDistance request there can be
DistanceRequests ==
    {DistanceCall(s, view, from, to) :
        s \in Composers, view \in {"dashboard", "menu"},
        from \in Villages \cup {ReferencePoint, restaurant.id}, to \in Villages}

\* the promise of a request settles
Settles(c) ==
    \/ DistanceResolves(c) \/ DistanceRejects(c)
    \/ MenuDistanceResolves(c) \/ MenuDistanceRejects(c)

SpecSelect ==
    InitCompose /\ [][NextSelect]_vars /\ \A c \in DistanceRequests : WF_vars(Settles(c))

\* ==================================================================== claims
\* a request c whose answer from the store arrives in this step
Lands(c, op) == c \in calls /\ c.op = op /\ c \notin calls' /\ orders[c.id] # NullObj

\* C1: of two acceptOffer calls racing on one WAITING_FOR_OFFERS order with
\* different offers, exactly one succeeds; the other is rejected and changes no
\* field of the order.  Stated of the call that arrives second: an accept
\* arriving at an order another courier's offer has already been accepted for
\* leaves the order as it is.
C1_SecondAcceptChangesNothing ==
    [][\A c \in calls :
          (/\ Lands(c, "accept")
           /\ c.seen = WAITING_FOR_OFFERS
           /\ orders[c.id].status = ACCEPTED
           /\ orders[c.id].driverId # c.data.driverId)
          => orders'[c.id] = orders[c.id]]_vars

\* C2: an order cancelled while WAITING_FOR_OFFERS never afterwards becomes
\* ACCEPTED nor receives driver fields.
C2_CancelledNeverAccepted ==
    [][\A o \in Docs :
          (orders[o].status = CANCELLED /\ orders[o].driverId = NULL)
          => (orders'[o].status # ACCEPTED /\ orders'[o].driverId = NULL)]_vars

\* C3: every change of an order's status follows WAITING_FOR_OFFERS -> ACCEPTED
\* -> ACTIVE_DELIVERY -> DELIVERED -> DELIVERED_RATED, or goes to CANCELLED from
\* a state before DELIVERED; an order starts WAITING_FOR_OFFERS, and
\* DELIVERED_RATED and CANCELLED are never left.
LegalTransitions ==
    {<<WAITING_FOR_OFFERS, ACCEPTED>>, <<ACCEPTED, ACTIVE_DELIVERY>>,
     <<ACTIVE_DELIVERY, DELIVERED>>, <<DELIVERED, DELIVERED_RATED>>,
     <<WAITING_FOR_OFFERS, CANCELLED>>, <<ACCEPTED, CANCELLED>>,
     <<ACTIVE_DELIVERY, CANCELLED>>}

C3_LegalTransitionsOnly ==
    [][\A o \in OrderIds :
          IF orders[o] = NullObj
          THEN orders'[o] # NullObj => orders'[o].status = WAITING_FOR_OFFERS
          ELSE \/ orders'[o].status = orders[o].status
               \/ <<orders[o].status, orders'[o].status>> \in LegalTransitions]_vars

\* C4: when a cancel races with acceptOffer or markDelivered, the write that
\* reaches the store first wins and the other is rejected: a cancel arriving
\* after the order was accepted or delivered, and an accept arriving after the
\* order was cancelled, find a status other than the one their caller saw and
\* leave the order as it is.
C4_LateWriteRejected ==
    [][\A c \in calls :
          (/\ Lands(c, "cancel") \/ Lands(c, "accept")
           /\ orders[c.id].status # c.seen
           /\ \/ c.op = "cancel" /\ orders[c.id].status \in {ACCEPTED, ACTIVE_DELIVERY, DELIVERED}
              \/ c.op = "accept" /\ orders[c.id].status = CANCELLED)
          => orders'[c.id] = orders[c.id]]_vars

\* C5: of two rate calls on one order the first succeeds and the second is
\* rejected: the order keeps the rating, feedback and ratedAt of the first call
\* and the second caller is not told the rating was saved.
C5_SecondRateRejected ==
    [][\A c \in calls :
          (Lands(c, "rate") /\ orders[c.id].status = DELIVERED_RATED)
          => /\ orders'[c.id].rating = orders[c.id].rating
             /\ orders'[c.id].feedback = orders[c.id].feedback
             /\ orders'[c.id].ratedAt = orders[c.id].ratedAt
             /\ alert'[c.sess] # "RatingSaved"]_vars

\* C6: a cancel takes effect only on an order that is WAITING_FOR_OFFERS,
\* ACCEPTED or ACTIVE_DELIVERY in the store; on a DELIVERED, DELIVERED_RATED or
\* CANCELLED order it is rejected; and no write to a cancelled order is accepted.
C6_CancelOnlyBeforeDelivered ==
    [][\A o \in Docs :
          /\ orders[o].status \in {DELIVERED, DELIVERED_RATED}
                => orders'[o].status # CANCELLED
          /\ orders[o].status = CANCELLED => orders'[o] = orders[o]]_vars

\* C7: an order has a driverId exactly when its status is ACCEPTED,
\* ACTIVE_DELIVERY, DELIVERED or DELIVERED_RATED.
C7_DriverIffAccepted ==
    \A o \in Docs :
        orders[o].driverId # NULL
          <=> orders[o].status \in {ACCEPTED, ACTIVE_DELIVERY, DELIVERED, DELIVERED_RATED}

\* C8: once an order has left WAITING_FOR_OFFERS its price and its distance
\* never change.
C8_PriceFixedAfterWaiting ==
    [][\A o \in Docs :
          orders[o].status # WAITING_FOR_OFFERS
          => /\ orders'[o].price = orders[o].price
             /\ orders'[o].distance = orders[o].distance]_vars

\* C9: an acceptOffer that arrives at a WAITING_FOR_OFFERS order leaves it
\* ACCEPTED with driverId, driverName, driverPhone and driverPhoto those of one
\* offer (driverPhoto null when the offer has none), acceptedAt stamped with the
\* time of the call, price the offer's price, and every other field as it was.
C9_AcceptStampsOffer ==
    [][\A c \in calls :
          (Lands(c, "accept") /\ orders[c.id].status = WAITING_FOR_OFFERS)
          => \E offer \in offers : \E t \in 0..now :
                orders'[c.id] =
                    [orders[c.id] EXCEPT !.status = ACCEPTED,
                                         !.driverId = offer.driverId,
                                         !.driverName = offer.driverName,
                                         !.driverPhone = offer.driverPhone,
                                         !.driverPhoto = offer.driverPhoto,
                                         !.acceptedAt = t,
                                         !.price = offer.price]]_vars

\* an order accepted for the courier without a photo, at that courier's price
C9_Witness ==
    \E o \in Docs :
        /\ orders[o].status = ACCEPTED
        /\ orders[o].driverId = "d2"
        /\ orders[o].driverPhoto = NULL
        /\ orders[o].acceptedAt # None
        /\ orders[o].price \in OfferPrices("d2")
        /\ orders[o].price # getEstimatedPrice(1)

\* C10: handleCreateOrder called with no dropoff village (neither
\* extraData.deliveryVillage nor dropoffVillage) is rejected before any write:
\* no request is sent, no order is added, no notification is emitted, and
\* isSubmitting and the form are as they were.
C10_NoVillageRejected ==
    [][\A s \in Sessions : \A extraData \in ExtraDatas :
          (finalVillageOf(s, extraData) = NULL /\ CallCreate(s, extraData))
          => /\ alert'[s] = "SelectDropoff"
             /\ UNCHANGED <<orders, offers, notifications, calls, isSubmitting, formVars>>]_vars

\* a session that was refused for its missing village, with nothing sent
C10_Witness ==
    \E s \in Sessions :
        /\ alert[s] = "SelectDropoff"
        /\ dropoffVillage[s] = NULL
        /\ ~isSubmitting[s]
        /\ calls = {}
        /\ Docs = {}
        /\ notifications = <<>>

\* C11: every order persisted by create, for every request variant (taxi,
\* pharmacy, restaurant menu, custom restaurant), is written with status
\* WAITING_FOR_OFFERS, createdAt the time the create was called, and no driver
\* fields: stated of every create request when it is sent and of every
\* document when it appears in the store.
Unassigned(document) ==
    /\ document.status = WAITING_FOR_OFFERS
    /\ document.driverId = NULL /\ document.driverName = NULL
    /\ document.driverPhone = NULL /\ document.driverPhoto = NULL
    /\ document.acceptedAt = None

C11_CreatedWaitingUnassigned ==
    [][/\ \A c \in calls' \ calls :
             c.op = "create" => (Unassigned(c.data) /\ c.data.createdAt = now)
       /\ \A o \in OrderIds :
             (orders[o] = NullObj /\ orders'[o] # NullObj)
             => /\ Unassigned(orders'[o])
                /\ \E c \in calls \ calls' :
                      c.op = "create" /\ orders'[o].createdAt = c.data.createdAt]_vars

\* an order of the restaurant menu stored after the clock has moved on
C11_Witness ==
    \E o \in Docs :
        /\ orders[o].restaurantName = "Abu Ali"
        /\ orders[o].status = WAITING_FOR_OFFERS
        /\ orders[o].createdAt > 0
        /\ orders[o].driverId = NULL

\* The estimate of the design document for an order of the given category,
\* vehicle, pickup village (NULL when the order has none), dropoff village and
\* road distance: the five pricing rules in their order of precedence.
VehicleMultiplier(vehicle) == IF multipliers(vehicle) # 0 THEN multipliers(vehicle) ELSE 10

\* the integer nearest to n / d (the upper one of two equally near), n >= 0, d > 0
Nearest(n, d) ==
    CHOOSE k \in 0..(n \div d + 1) : (2 * k - 1) * d <= 2 * n /\ 2 * n < (2 * k + 1) * d

Larger(a, b) == IF a < b THEN b ELSE a

PricingRules(category, vehicle, pickup, dropoff, dist) ==
    IF category = "TAXI" /\ pickup = dropoff THEN sameVillagePrice
    ELSE IF category = "FOOD" /\ pickup = dropoff THEN sameVillagePrice
    ELSE IF category = "FOOD" THEN Nearest(dist * foodOutsidePricePerKm, 10)
    ELSE IF category = "PHARMACY"
    THEN Nearest(Larger(deliveryBasePrice * 100,
                   (deliveryBasePrice * 10 + dist * pricePerKm) * VehicleMultiplier(vehicle)),
               100)
    ELSE Nearest(Larger(minPrice * 100,
                   (basePrice * 10 + dist * pricePerKm) * VehicleMultiplier(vehicle)),
               100)

\* the village an order is picked up in, NULL when the order has no pickup
PickupVillageOf(document) ==
    IF document.pickup = NullObj THEN NULL ELSE document.pickup.villageName

\* every distance the road network has
RoadDistances ==
    {RoadDistance(from, to) : from \in Villages \cup {ReferencePoint, restaurant.id},
                              to \in Villages}

\* C12: the price of a create request is the price its flow supplies whenever
\* it supplies one (the menu checkout's total, a total of 0 included), and
\* otherwise is the estimate for the order's own category, vehicle, pickup and
\* dropoff, at a distance of the road network.
C12_SuppliedPriceOrOwnEstimate ==
    [][\A c \in calls' \ calls :
          c.op = "create" =>
             IF viewingRestaurant[c.sess] # NULL
             THEN c.data.price = finalEstimatedPrice(c.sess)
             ELSE \E dist \in RoadDistances :
                     c.data.price =
                        PricingRules(c.data.category, c.data.requestedVehicleType,
                                     PickupVillageOf(c.data), c.data.dropoff.villageName,
                                     dist)]_vars

\* a distance request that is about the selection the session now holds
Current(c) ==
    IF c.view = "menu"
    THEN viewingRestaurant[c.sess] # NULL /\ c.to = currentVillage[c.sess]
    ELSE /\ c.to = dropoffVillage[c.sess]
         /\ \/ c.from = pickupVillage[c.sess]
            \/ /\ pickupVillage[c.sess] = NULL
               /\ selectedCategory[c.sess] = "PHARMACY"
               /\ c.from = ReferencePoint

\* C13: while a distance request for the order being composed is outstanding,
\* submitting is disabled on every path: the submit button of the taxi and
\* pharmacy forms, the submit button of the "another restaurant" form, the
\* confirm button of the restaurant menu; also when requests overlap and an
\* earlier one is answered first.
C13_SubmitDisabledWhileDistancePending ==
    \A c \in distanceCalls :
        Current(c) =>
            IF c.view = "menu" THEN ConfirmDisabled(c.sess)
            ELSE /\ SubmitDisabled(c.sess)
                 /\ showCustomRestForm[c.sess] => isSubmitting[c.sess]

\* C14: when the distance request for the current selection fails, the
\* distance is unknown and an order whose price depends on the distance cannot
\* be submitted: after the failure the submit button of the form is disabled,
\* and so is the confirm button of the menu unless the restaurant stands in the
\* delivery village (the flat same-village price).
C14_FailedDistanceBlocksSubmit ==
    [][\A c \in distanceCalls :
          /\ (DistanceRejects(c) /\ Current(c)) => SubmitDisabled(c.sess)'
          /\ (/\ MenuDistanceRejects(c)
              /\ Current(c)
              /\ restaurant.address # currentVillage[c.sess])
             => ConfirmDisabled(c.sess)']_vars

\* C16: a FOOD order whose restaurant stands in the dropoff village is
\* delivered for sameVillagePrice on every path that prices it: the delivery
\* price of the menu, the total of a menu checkout, and the price of an
\* "another restaurant" request.
C16_FoodSameVillageFlat ==
    [][/\ \A s \in Sessions :
             (viewingRestaurant[s] # NULL /\ restaurant.address = currentVillage[s])
             => getDeliveryPrice(s) = sameVillagePrice
       /\ \A c \in calls' \ calls :
             (/\ c.op = "create"
              /\ c.data.category = "FOOD"
              /\ PickupVillageOf(c.data) = c.data.dropoff.villageName)
             => IF viewingRestaurant[c.sess] # NULL
                THEN c.data.price = totalFoodItemsPrice(c.sess) + sameVillagePrice
                ELSE c.data.price = sameVillagePrice]_vars

\* C17: a FOOD order whose restaurant stands in another village than the
\* dropoff is delivered for round(distance * foodOutsidePricePerKm), with no
\* floor and no vehicle multiplier, the distance being the road distance from
\* the restaurant to the dropoff village.
C17_FoodCrossVillageByRoadDistance ==
    [][\A c \in calls' \ calls :
          (/\ c.op = "create"
           /\ c.data.category = "FOOD"
           /\ PickupVillageOf(c.data) # NULL
           /\ PickupVillageOf(c.data) # c.data.dropoff.villageName)
          => IF viewingRestaurant[c.sess] # NULL
             THEN c.data.price =
                     totalFoodItemsPrice(c.sess)
                       + Round(RoadDistance(restaurant.id, c.data.dropoff.villageName)
                                  * foodOutsidePricePerKm, 10)
             ELSE c.data.price =
                     Round(RoadDistance(PickupVillageOf(c.data), c.data.dropoff.villageName)
                              * foodOutsidePricePerKm, 10)]_vars

\* the create requests sent by the step
Created == {c \in calls' \ calls : c.op = "create"}

\* C15: a TAXI order whose pickup village is its dropoff village is priced at
\* sameVillagePrice, whatever its vehicle and whatever the distance held.
C15_TaxiSameVillageFlat ==
    [][\A c \in Created :
          (c.data.category = "TAXI" /\ PickupVillageOf(c.data) = c.data.dropoff.villageName)
             => c.data.price = sameVillagePrice]_vars

\* a stored TAXI order inside one village, sent with a distance of 10 km held
C15_Witness ==
    \E o \in Docs :
       /\ orders[o].category = "TAXI"
       /\ PickupVillageOf(orders[o]) = orders[o].dropoff.villageName
       /\ orders[o].requestedVehicleType = "CAR"
       /\ orders[o].distance = 100
       /\ orders[o].price = sameVillagePrice

\* C18: the price of a PHARMACY order is never below deliveryBasePrice and is
\* never below the price of the same order at a shorter distance, for every
\* vehicle.
C18_PharmacyMonotoneAboveBase ==
    [][\A c \in Created :
          c.data.category = "PHARMACY" =>
             /\ c.data.price >= deliveryBasePrice
             /\ \A d \in Distances :
                   d <= c.data.distance =>
                      estimatedPrice(c.data.category, c.data.requestedVehicleType,
                                     pickupVillage[c.sess], c.data.dropoff.villageName, d)
                         <= c.data.price]_vars

\* a stored PHARMACY order of 10 km priced above the base price
C18_Witness ==
    \E o \in Docs :
       /\ orders[o].category = "PHARMACY"
       /\ orders[o].distance = 100
       /\ orders[o].price > deliveryBasePrice

\* C19: the price of a PHARMACY order is
\* round(max(deliveryBasePrice, (deliveryBasePrice + distance * pricePerKm) *
\* multiplier)), the multiplier being 1 for a vehicle that has none: 26 for
\* 2 km at a base price of 20, 3 per km and a multiplier of 1.
C19_PharmacyFormula ==
    [][\A c \in Created :
          c.data.category = "PHARMACY" =>
             /\ c.data.price =
                   Nearest(Larger(deliveryBasePrice * 100,
                                  (deliveryBasePrice * 10 + c.data.distance * pricePerKm)
                                     * VehicleMultiplier(c.data.requestedVehicleType)),
                           100)
             /\ (c.data.distance = 20 /\ multipliers(c.data.requestedVehicleType) \in {0, 10})
                   => c.data.price = 26]_vars

\* a stored PHARMACY order of 2 km for a vehicle without a multiplier, at 26
C19_Witness ==
    \E o \in Docs :
       /\ orders[o].category = "PHARMACY"
       /\ multipliers(orders[o].requestedVehicleType) = 0
       /\ orders[o].distance = 20
       /\ orders[o].price = 26

\* C20: the price of a TAXI order between two villages is
\* round(max(minPrice, (basePrice + distance * pricePerKm) * multiplier)), so
\* never below minPrice: 48 for 10 km by CAR at a multiplier of 1.2.
C20_TaxiCrossVillageFormula ==
    [][\A c \in Created :
          (/\ c.data.category = "TAXI"
           /\ PickupVillageOf(c.data) # NULL
           /\ PickupVillageOf(c.data) # c.data.dropoff.villageName) =>
             /\ c.data.price =
                   Nearest(Larger(minPrice * 100,
                                  (basePrice * 10 + c.data.distance * pricePerKm)
                                     * VehicleMultiplier(c.data.requestedVehicleType)),
                           100)
             /\ c.data.price >= minPrice
             /\ (c.data.distance = 100 /\ c.data.requestedVehicleType = "CAR")
                   => c.data.price = 48]_vars

\* a stored TAXI order between two villages, 10 km by CAR, at 48
C20_Witness ==
    \E o \in Docs :
       /\ orders[o].category = "TAXI"
       /\ PickupVillageOf(orders[o]) = "v1"
       /\ orders[o].dropoff.villageName = "v2"
       /\ orders[o].requestedVehicleType = "CAR"
       /\ orders[o].distance = 100
       /\ orders[o].price = 48

\* a step of the customer side: a handler sends a request or the store answers one
CustomerStep == calls' # calls

\* no offer is removed or altered, and a customer step adds none
OffersUntouched ==
    /\ offers \subseteq offers'
    /\ CustomerStep => offers' = offers

\* the courier an order has been given to is not replaced by the courier of
\* another offer
NoLaterPromotion ==
    \A o \in Docs :
       orders[o].driverId # NULL => orders'[o].driverId = orders[o].driverId

\* C21: no customer operation (accept, cancel, rate, create) writes to an
\* offer: the set of offers and the fields of every offer are as they were
\* after it; and an offer that was not the one chosen is never promoted
\* afterwards.
C21_OffersNeverWrittenNorPromoted ==
    [][OffersUntouched /\ NoLaterPromotion]_vars

\* a create request whose document the store has stored in this step
Stored(c) == c \in calls /\ c.op = "create" /\ c \notin calls' /\ orders' # orders

\* the step opens one more message towards the operator
Notifies == Len(notifications') = Len(notifications) + 1

\* C22: a notification towards the dispatch operator is issued after every
\* successful creation of an order and after every successful acceptance of
\* an offer.
C22_NotifiedAfterCreateAndAccept ==
    [][\A c \in calls : (Stored(c) \/ Lands(c, "accept")) => Notifies]_vars

\* C23: when the message to the operator fails after the order was stored, the
\* order stays exactly as it was written and the create completes as a success
\* for its caller: no failed-submission alert, the submitting flag released.
C23_NotifyFailureNotFatal ==
    [][\A c \in calls :
          (Stored(c) /\ ~Notifies) =>
             /\ \E o \in Docs' : orders'[o] = [k \in DOMAIN c.data \cup {"id"} |->
                                                  IF k = "id" THEN o ELSE c.data[k]]
             /\ ~isSubmitting'[c.sess]
             /\ alert'[c.sess] # "CreateFailed"]_vars

\* every item of the list has a positive quantity and no two share an id
ValidItems(items) ==
    /\ \A i \in DOMAIN items : items[i].quantity > 0
    /\ \A i, j \in DOMAIN items : items[i].id = items[j].id => i = j

\* C24: after any sequence of addToCart and removeFromCart from the empty
\* cart, every cart item has a quantity above 0 and no two items share an id;
\* so do the foodItems of every order created from the menu.
C24_CartItemsPositiveAndUnique ==
    /\ \A s \in Sessions : ValidItems(cart[s])
    /\ \A c \in Pending("create") : ValidItems(c.data.foodItems)
    /\ \A o \in Docs : ValidItems(orders[o].foodItems)

\* a stored order of two different items, one of them taken twice
C24_Witness ==
    \E o \in Docs :
       /\ Len(orders[o].foodItems) = 2
       /\ \E i \in DOMAIN orders[o].foodItems : orders[o].foodItems[i].quantity = 2

\* what a rate does to the DELIVERED order it reaches
RateTakesEffect(c) ==
    /\ orders'[c.id].status = DELIVERED_RATED
    /\ orders'[c.id].rating \in 1..5
    /\ orders'[c.id].rating = c.data.rating
    /\ orders'[c.id].feedback = c.data.feedback
    /\ orders'[c.id].ratedAt = c.data.ratedAt
    /\ \A k \in DOMAIN orders[c.id] \ {"status", "rating", "feedback", "ratedAt"} :
          orders'[c.id][k] = orders[c.id][k]

\* C25: a rate takes effect only on an order that is DELIVERED in the store:
\* it then sets the status DELIVERED_RATED, stores a rating in 1..5 with the
\* feedback and stamps ratedAt; a rate that reaches an order in any other
\* status is rejected and changes nothing.
C25_RateOnlyOnDelivered ==
    [][\A c \in calls :
          Lands(c, "rate") =>
             IF orders[c.id].status = DELIVERED
             THEN RateTakesEffect(c)
             ELSE orders'[c.id] = orders[c.id]]_vars

\* C26: no customer operation blocks for ever: a create or a rate that was
\* started completes, with success or with a failure the customer can recover
\* from, and the submitting flag returns to false, even when the store never
\* answers the write.
C26_SubmittingEventuallyReleased ==
    \A s \in Sessions : isSubmitting[s] ~> ~isSubmitting[s]

\* the timestamps a document has are in the order of the lifecycle
StampsOrdered(document) ==
    LET present == {k \in {"createdAt", "acceptedAt", "ratedAt"} : document[k] # None}
    IN  /\ {"createdAt", "acceptedAt"} \subseteq present
              => document.createdAt <= document.acceptedAt
        /\ {"acceptedAt", "ratedAt"} \subseteq present
              => document.acceptedAt <= document.ratedAt
        /\ {"createdAt", "ratedAt"} \subseteq present
              => document.createdAt <= document.ratedAt

\* C27: the timestamps an order has are ordered createdAt <= acceptedAt <=
\* ratedAt, and a timestamp that has been set is never overwritten with a
\* different value.
C27_StampsOrderedAndKept ==
    [][\A o \in Docs :
          /\ StampsOrdered(orders'[o])
          /\ \A k \in {"createdAt", "acceptedAt", "ratedAt"} :
                orders[o][k] # None => orders'[o][k] = orders[o][k]]_vars

\* the requests sent by the step (a handler sends one at a time)
Sent == calls' \ calls

\* C28: a session acts on an offer or an order only after checking the
\* order's status: it sends an accept or a cancel only when the latest order
\* snapshot it has received shows WAITING_FOR_OFFERS, and a rate only when
\* that snapshot shows DELIVERED; the write addresses the order of the snapshot.
C28_WritesFollowSnapshotStatus ==
    [][\A c \in Sent :
          c.op \in {"accept", "cancel", "rate"} =>
             /\ activeOrder[c.sess] # NullObj
             /\ c.id = activeOrder[c.sess].id
             /\ c.op \in {"accept", "cancel"}
                   => activeOrder[c.sess].status = WAITING_FOR_OFFERS
             /\ c.op = "rate" => activeOrder[c.sess].status = DELIVERED]_vars

\* one device has sent a rate from its DELIVERED view while the other has
\* sent a cancel from the WAITING_FOR_OFFERS view it still shows
C28_Witness ==
    \E c, d \in calls :
       /\ c.op = "rate" /\ c.seen = DELIVERED
       /\ d.op = "cancel" /\ d.seen = WAITING_FOR_OFFERS
       /\ activeOrder[d.sess] # NullObj
       /\ activeOrder[d.sess].status = WAITING_FOR_OFFERS

\* the distance requests asked by the step
Asked == distanceCalls' \ distanceCalls

\* C29: the distance a PHARMACY order is priced with and stores is the road
\* distance from the fixed reference point to its dropoff village, whatever
\* pickup village was selected earlier while another category was active: the
\* dashboard asks for that distance, and the order sent carries it.
C29_PharmacyDistanceFromReference ==
    [][/\ \A c \in Asked :
             (c.view = "dashboard" /\ selectedCategory'[c.sess] = "PHARMACY")
                => c.from = ReferencePoint
       /\ \A c \in Created :
             c.data.category = "PHARMACY" =>
                /\ c.data.distance = RoadDistance(ReferencePoint, c.data.dropoff.villageName)
                /\ c.data.price =
                      PricingRules("PHARMACY", c.data.requestedVehicleType, NULL,
                                   c.data.dropoff.villageName, c.data.distance)]_vars

\* the price the dashboard derives for a request from the distance the request
\* stores: the menu's total for a menu checkout, the estimate otherwise
PriceAtStoredDistance(c) ==
    IF viewingRestaurant[c.sess] # NULL
    THEN SumItems(c.data.foodItems)
           + (IF restaurant.address = c.data.dropoff.villageName
              THEN sameVillagePrice
              ELSE Nearest(c.data.distance * foodOutsidePricePerKm, 10))
    ELSE estimatedPrice(c.data.category, c.data.requestedVehicleType,
                        pickupVillage[c.sess], c.data.dropoff.villageName,
                        c.data.distance)

\* C30: on every request variant, the distance an order is created with is the
\* road distance its price was derived from: deriving the price again from
\* the stored distance gives the stored price.
C30_StoredDistancePricesOrder ==
    [][\A c \in Created : c.data.price = PriceAtStoredDistance(c)]_vars

\* C31: every offer accepted onto an order was submitted for that order: when
\* handleAcceptOffer writes an offer's driver and price to the active order,
\* the offer's orderId is that order's id, also when the active order has
\* changed while the offer list shown still holds the offers of an earlier one.
C31_AcceptedOfferIsOfTheOrder ==
    [][\A c \in Sent :
          c.op = "accept" =>
             \A offer \in incomingOffers[c.sess] :
                c.data = AcceptFields(offer) => offer.orderId = c.id]_vars

\* the customer's orders that are neither rated nor cancelled
OpenOrders == {o \in Docs : orders[o].status \notin Terminal}

\* C32: the customer never has more than one order in the store whose status
\* is outside DELIVERED_RATED and CANCELLED: an order can be created only when
\* there is none, also between a create write and the arrival of the snapshot
\* that reports it.
C32_OneOpenOrder == Cardinality(OpenOrders) <= 1

\* the distance requests answered by the step
Answered == distanceCalls \ distanceCalls'

\* no request of that session and view is outstanding after the step
AllDelivered(s, view) == \A c \in distanceCalls' : ~(c.sess = s /\ c.view = view)

\* C33: once every outstanding distance response has been delivered, in
\* whatever order, the distance held for pricing is that of the pair now
\* selected (0 inside one village), never that of an earlier selection: the
\* last response applied, on the dashboard and in the restaurant menu, is the
\* response for the current selection.
C33_LastResponseIsCurrentSelection ==
    [][\A c \in Answered :
          /\ (/\ c.view = "dashboard"
              /\ AllDelivered(c.sess, "dashboard")
              /\ actualRoadDist'[c.sess] = RoadDistance(c.from, c.to))
                => /\ c.to = dropoffVillage'[c.sess]
                   /\ c.from = IF pickupVillage'[c.sess] # NULL
                               THEN pickupVillage'[c.sess] ELSE ReferencePoint
          /\ (/\ c.view = "menu"
              /\ viewingRestaurant'[c.sess] # NULL
              /\ AllDelivered(c.sess, "menu")
              /\ roadDist'[c.sess] = RoadDistance(c.from, c.to))
                => c.to = currentVillage'[c.sess]]_vars

\* C34: every TAXI order sent to the store carries a pickup location: a TAXI
\* order cannot be created while no pickup village is selected.
C34_TaxiOrderHasPickup ==
    [][\A c \in Created : c.data.category = "TAXI" => c.data.pickup # NullObj]_vars

\* the sum over the items of price * quantity, by counting: one unit for each
\* pound of each piece
Counted(items) ==
    Cardinality(UNION {{<<i, k>> : k \in 1..(items[i].price * items[i].quantity)} :
                          i \in DOMAIN items})

\* C35: for every cart and every menu item, addToCart(item) followed by
\* removeFromCart(item.id) gives the cart back, the same items with the same
\* quantities in the same order; and the food total is the sum over the cart
\* items of price * quantity.
C35_AddThenRemoveRestoresCart ==
    [][\A s \in Sessions :
          /\ SumItems(cart'[s]) = Counted(cart'[s])
          /\ \A item \in menu :
                (cart'[s] = addItem(cart[s], item) /\ viewingRestaurant'[s] # NULL)
                   => removeItem(cart'[s], item.id) = cart[s]]_vars

\* a cart that holds two of the second item of the menu alone: adding the
\* first item appends an entry, removing it takes the entry out again
C35_Witness ==
    \E s \in Sessions :
       /\ Len(cart[s]) = 1
       /\ cart[s][1].id = "m2"
       /\ cart[s][1].quantity = 2
       /\ totalFoodItemsPrice(s) = 30

\* C36: when every distance request is answered in the end, the calculating
\* flag of the dashboard and that of the menu become false after any sequence
\* of selections, and a flag that is false stays false until a selection is
\* changed (or the menu is opened): submitting is never disabled for ever.
C36_CalculatingFlagSettles ==
    /\ \A s \in Sessions : isCalculatingDist[s] ~> ~isCalculatingDist[s]
    /\ \A s \in Sessions : isCalculating[s] ~> ~isCalculating[s]
    /\ [][\A s \in Sessions :
             /\ (~isCalculatingDist[s] /\ isCalculatingDist'[s])
                   => <<selectedCategory[s], pickupVillage[s], dropoffVillage[s]>>
                         # <<selectedCategory'[s], pickupVillage'[s], dropoffVillage'[s]>>
             /\ (~isCalculating[s] /\ isCalculating'[s])
                   => <<viewingRestaurant[s], currentVillage[s]>>
                         # <<viewingRestaurant'[s], currentVillage'[s]>>]_vars

\* both flags are up with a request of the dashboard and one of the menu
\* outstanding
C36_Witness ==
    \E s \in Sessions :
       /\ isCalculatingDist[s] /\ isCalculating[s]
       /\ \E c, d \in distanceCalls :
             c.sess = s /\ d.sess = s /\ c.view = "dashboard" /\ d.view = "menu"

====
